---- MODULE Spec2Model ----
(***************************************************************************)
(* PluginBridge (src/plugin_bridge.js): an in-process message bus with a   *)
(* plugin registry, a middleware pipeline, send / broadcast dispatch and   *)
(* an event emitter.                                                       *)
(*                                                                         *)
(* JavaScript runs one synchronous segment at a time.  The variable stack  *)
(* is the synchronous call stack of the segment that is running: the bus's *)
(* own loops (emit's for-of, broadcast's map) and the user callbacks       *)
(* (listeners, middleware and handler stages) they invoke.  With an empty  *)
(* stack the event loop is idle: the host may call the bus, or a suspended *)
(* continuation may be resumed.  A callback on top of the stack may call   *)
(* the bus as the host does.                                               *)
(*                                                                         *)
(* A send is a task: its pipeline (the stages, outermost first), the depth *)
(* d of the stage that is active, and where that stage is: running on the  *)
(* stack, suspended on an await of its own, or ready to go on with the     *)
(* result of next().  next() enters the following stage synchronously; a   *)
(* stage awaits the promise next() returned, so the stages above the       *)
(* active one wait for it.  What a stage does is not fixed by the bus:     *)
(* whether it calls next, what it returns or throws, and which bus calls   *)
(* it makes are chosen freely at every invocation.  Microtasks that are    *)
(* ready run in any order.                                                 *)
(***************************************************************************)
EXTENDS Integers, Sequences, FiniteSets, TLC

----------------------------------------------------------------------------
\* Bounds of the model.
MaxOps == 4
MaxStack == 4
MaxMw == 2
MaxSends == 2
MaxBroadcasts == 1
MaxNext == 2

----------------------------------------------------------------------------
\* The values the callers supply.
Names == {"a", "b"}
Handlers == {"h1", "h2"}
Mws == {"m1", "m2"}
Listeners == {"L1", "L2"}
Events == {"plugin:registered", "plugin:unregistered", "plugin:message"}

\* Arguments that fail the type checks of registerPlugin and use.
EmptyName == ""
NotAString == "<number>"
NotAFunction == "<object>"
NameArgs == Names \cup {EmptyName, NotAString}
HandlerArgs == Handlers \cup {NotAFunction}
MwArgs == Mws \cup {NotAFunction}

\* JavaScript values are triples <<tag, text, argument>>.
None == <<"none", "", "">>
Values == {<<"value", "v1", "">>, <<"value", "v2", "">>}
\* What a callback may throw: an Error with a message, a primitive (which has
\* no message property), or null.
Thrown == {<<"Error", "boom", "">>, <<"string", "boom", "">>, <<"null", "", "">>}
Undefined == <<"undefined", "", "">>
\* The message a caller sends.
Messages == {<<"value", "hello", "">>}

\* typeof x === "string" / typeof x === "function"
IsString(x) == x # NotAString
\* (mutant: the check is "!handler" instead of a typeof test)
IsFunction_Truthy(x) == x # EmptyName
IsFunction(x) == x # NotAFunction
\* !name (an empty string is falsy)
IsFalsy(x) == x = EmptyName

\* The Error objects the bus throws, by their message text.
InvalidName == <<"Error", "Plugin name must be a non-empty string.", "">>
InvalidHandler == <<"Error", "Plugin handler must be a function.", "">>
InvalidMiddleware == <<"Error", "Middleware must be a function.", "">>
DuplicatePlugin(name) == <<"Error", "Plugin % is already registered.", name>>
UnknownPlugin(name) == <<"Error", "Plugin % is not registered.", name>>
\* error.message of null or undefined: the read itself throws.
TypeErrorOnRead == <<"Error", "Cannot read properties of null (reading 'message')", "">>
HasProperties(e) == e[1] # "null"
MessageOf(e) == IF e[1] = "Error" THEN <<"message", e[2], e[3]>> ELSE Undefined

-----------------------------------------------------------------------------
\* Map and Set of JavaScript keep insertion order.
Range(s) == {s[i] : i \in 1..Len(s)}
IndexOf(s, x) == CHOOSE i \in 1..Len(s) : s[i] = x
Remove(s, i) == SubSeq(s, 1, i - 1) \o SubSeq(s, i + 1, Len(s))

\* this.plugins: a sequence of [name, handler] in insertion order.
MapKeys(m) == [i \in 1..Len(m) |-> m[i].name]
MapHas(m, name) == \E i \in 1..Len(m) : m[i].name = name
MapGet(m, name) == (CHOOSE i \in 1..Len(m) : m[i].name = name)
MapGetHandler(m, name) == m[CHOOSE i \in 1..Len(m) : m[i].name = name].handler
\* Map.prototype.get yields undefined for an absent key.
MapGetOrUndefined(m, name) == IF MapHas(m, name) THEN MapGetHandler(m, name) ELSE "<undefined>"
MapSet(m, name, handler) ==
    IF MapHas(m, name)
    THEN [m EXCEPT ![MapGet(m, name)].handler = handler]
    ELSE Append(m, [name |-> name, handler |-> handler])
\* (mutant: the entry is overwritten with undefined instead of deleted)
MapDelete_Tombstone(m, name) ==
    IF MapHas(m, name) THEN [m EXCEPT ![MapGet(m, name)].handler = "<undefined>"] ELSE m
MapDelete(m, name) == IF MapHas(m, name) THEN Remove(m, MapGet(m, name)) ELSE m
\* The value Map.prototype.delete returns: whether an entry was removed.
\* (mutant: unregisterPlugin does not test what delete returned)
DeleteReturns_Ignored(m, name) == TRUE
DeleteReturns(m, name) == MapHas(m, name)

\* A Set of listeners: a sequence without repetitions.
SetAdd(s, x) == IF x \in Range(s) THEN s ELSE Append(s, x)
\* (mutant: an array with splice(indexOf(x), 1), which drops the last entry when
\* x is absent)
SetDelete_Splice(s, x) ==
    IF x \in Range(s) THEN Remove(s, IndexOf(s, x)) ELSE SubSeq(s, 1, Len(s) - 1)
SetDelete(s, x) == IF x \in Range(s) THEN Remove(s, IndexOf(s, x)) ELSE s

-----------------------------------------------------------------------------
VARIABLES
    plugins,      \* this.plugins: Map name -> handler
    middlewares,  \* this.middlewares: array of middleware
    listeners,    \* this.listeners: Map event -> Set of callbacks
    logged,       \* the calls of this.logger.error, in order
    stack,        \* the synchronous call stack (top is the last element)
    sends,        \* the send calls made so far, each with its pipeline's progress
    bcasts,       \* the broadcast calls made so far
    ops,          \* number of bus calls made by the host and the callbacks
    last,         \* the most recent bus call and how it ended
    emitted,      \* number of emit calls per event and payload name
    marks         \* the writes into context objects: <<object, writing send>>

vars == <<plugins, middlewares, listeners, logged, stack, sends, bcasts, ops, last,
          emitted, marks>>

Ok == <<"ok", "", "">>
NoPayload == [name |-> "", message |-> None, response |-> None]
Frame(t) ==
    [t |-> t, ev |-> "", pl |-> NoPayload, pos |-> 0, after |-> 0,
     start |-> <<>>, fired |-> <<>>, id |-> 0, i |-> 0, who |-> ""]
Top == stack[Len(stack)]
Pop(stk) == SubSeq(stk, 1, Len(stk) - 1)
\* Frames that run user code: a listener, or a stage (middleware or handler) of a send.
UserFrames == {"lis", "run"}
\* The host (idle event loop) or the callback that is running may call the bus.
CanCall == ops < MaxOps /\ (IF stack = <<>> THEN TRUE ELSE Top.t \in UserFrames)
Called(op, name, arg, out, how) ==
    [op |-> op, name |-> name, arg |-> arg, out |-> out, how |-> how]

Init ==
    /\ plugins = <<>>
    /\ middlewares = <<>>
    /\ listeners = <<>>
    /\ logged = <<>>
    /\ stack = <<>>
    /\ sends = <<>>
    /\ bcasts = <<>>
    /\ ops = 0
    /\ last = Called("new", "", "", Ok, "return")
    /\ emitted = [e \in Events |-> [n \in Names |-> 0]]
    /\ marks = {}

-----------------------------------------------------------------------------
\* emit(event, payload), lines 114-125.  The call pushes the for-of loop; pos is
\* the number of entries of the live Set the iterator has passed.
EmitFrame(event, payload, after) ==
    [Frame("emit") EXCEPT !.ev = event, !.pl = payload, !.after = after,
        !.start = IF event \in DOMAIN listeners THEN listeners[event] ELSE <<>>]
CountEmit(event, name) == [emitted EXCEPT ![event][name] = @ + 1]

\* line 115 and the loop condition of line 118: nothing (more) to iterate.
\* (mutant: emit returns at once, the listeners are left for later)
EmitDone_Deferred(f) == TRUE
EmitDone(f) ==
    IF f.ev \in DOMAIN listeners THEN f.pos >= Len(listeners[f.ev]) ELSE TRUE

\* line 118-120: the iterator yields the next entry of the Set and the loop calls it.
EmitNext ==
    /\ stack # <<>>
    /\ Top.t = "emit"
    /\ ~EmitDone(Top)
    /\ LET f == Top
           l == listeners[f.ev][f.pos + 1]
       IN stack' = Append([stack EXCEPT ![Len(stack)].pos = f.pos + 1,
                                        ![Len(stack)].fired = Append(f.fired, l)],
                          [Frame("lis") EXCEPT !.who = l, !.ev = f.ev])
    /\ UNCHANGED <<plugins, middlewares, listeners, logged, sends, bcasts, ops, last, emitted, marks>>

\* callback(payload) returned.
ListenerReturn ==
    /\ stack # <<>>
    /\ Top.t = "lis"
    /\ stack' = Pop(stack)
    /\ UNCHANGED <<plugins, middlewares, listeners, logged, sends, bcasts, ops, last, emitted, marks>>

\* lines 121-123: callback(payload) threw; the error is logged and the loop goes on.
ListenerThrow ==
    /\ stack # <<>>
    /\ Top.t = "lis"
    /\ stack' = Pop(stack)
    /\ logged' = Append(logged, [kind |-> "listener", who |-> Top.ev])
    /\ UNCHANGED <<plugins, middlewares, listeners, sends, bcasts, ops, last, emitted, marks>>

\* emit returns.  After send's emit (line 71), line 72 returns the response.
Success(v) == [ok |-> TRUE, v |-> v]
Failure(e) == [ok |-> FALSE, v |-> e]
NoResult == [ok |-> FALSE, v |-> None]
SendReturn(ss, id, response) ==
    [ss EXCEPT ![id].st = "resolved", ![id].out = Success(response)]
EmitEnd ==
    /\ stack # <<>>
    /\ Top.t = "emit"
    /\ EmitDone(Top)
    /\ stack' = Pop(stack)
    /\ sends' = IF Top.after = 0 THEN sends
                ELSE SendReturn(sends, Top.after, sends[Top.after].res.v)
    /\ UNCHANGED <<plugins, middlewares, listeners, logged, bcasts, ops, last, emitted, marks>>

-----------------------------------------------------------------------------
\* on(event, callback), lines 96-101.
ListenersAdd(ls, event, callback) ==
    [e \in DOMAIN ls \cup {event} |->
        IF e = event
        THEN SetAdd(IF event \in DOMAIN ls THEN ls[event] ELSE <<>>, callback)
        ELSE ls[e]]
on(event, callback) ==
    /\ CanCall
    /\ listeners' = ListenersAdd(listeners, event, callback)
    /\ ops' = ops + 1
    /\ last' = Called("on", event, callback, Ok, "return")
    /\ UNCHANGED <<plugins, middlewares, logged, stack, sends, bcasts, emitted, marks>>

\* off(event, callback), lines 108-112.
ListenersDelete(ls, event, callback) ==
    IF event \in DOMAIN ls
    THEN [ls EXCEPT ![event] = SetDelete(ls[event], callback)]
    ELSE ls
\* A running for-of over the Set skips a deleted entry: deleting an entry the
\* iterator has passed moves its position back by one.
IteratorsAfterDelete(stk, ls, event, callback) ==
    IF event \in DOMAIN ls /\ callback \in Range(ls[event])
    THEN [j \in 1..Len(stk) |->
            IF stk[j].t = "emit" /\ stk[j].ev = event
               /\ IndexOf(ls[event], callback) <= stk[j].pos
            THEN [stk[j] EXCEPT !.pos = @ - 1]
            ELSE stk[j]]
    ELSE stk
off(event, callback) ==
    /\ CanCall
    /\ listeners' = ListenersDelete(listeners, event, callback)
    /\ stack' = IteratorsAfterDelete(stack, listeners, event, callback)
    /\ ops' = ops + 1
    /\ last' = Called("off", event, callback, Ok, "return")
    /\ UNCHANGED <<plugins, middlewares, logged, sends, bcasts, emitted, marks>>

\* How a failure raised in the body of a method reaches its caller.
\* registerPlugin (line 18) and use (line 46) are plain methods: a throw in
\* their body unwinds into the caller.  send (line 60) is declared async: a
\* throw in its body, the one of line 62 included, rejects the promise that
\* the call returns, and the call itself returns normally.
\* (mutant: send is a plain method, its throw unwinds into the caller)
Delivery_Plain(op) == "throw"
Delivery(op) == IF op = "send" THEN "promise" ELSE "throw"

\* use(middleware), lines 46-51.
\* line 50: Array.prototype.push appends at the end of the array.
\* (mutant: unshift, the new middleware becomes the outermost)
Push_Unshift(arr, x) == <<x>> \o arr
Push(arr, x) == Append(arr, x)
UseError(middleware) == IF ~IsFunction(middleware) THEN InvalidMiddleware ELSE Ok
use(middleware) ==
    /\ CanCall
    /\ ops' = ops + 1
    /\ IF UseError(middleware) # Ok
       THEN /\ last' = Called("use", "", middleware, UseError(middleware), Delivery("use"))
            /\ UNCHANGED middlewares
       ELSE /\ Len(middlewares) < MaxMw
            /\ middlewares' = Push(middlewares, middleware)
            /\ last' = Called("use", "", middleware, Ok, "return")
    /\ UNCHANGED <<plugins, listeners, logged, stack, sends, bcasts, emitted, marks>>

\* registerPlugin(name, handler), lines 18-30.
\* (mutant: the check of line 25 is missing, a second registration overwrites)
RegisterError_NoDuplicateCheck(m, name, handler) ==
    IF IsFalsy(name) \/ ~IsString(name) THEN InvalidName
    ELSE IF ~IsFunction(handler) THEN InvalidHandler
    ELSE Ok
RegisterError(m, name, handler) ==
    IF IsFalsy(name) \/ ~IsString(name) THEN InvalidName
    ELSE IF ~IsFunction(handler) THEN InvalidHandler
    ELSE IF MapHas(m, name) THEN DuplicatePlugin(name)
    ELSE Ok
registerPlugin(name, handler) ==
    /\ CanCall
    /\ ops' = ops + 1
    /\ IF RegisterError(plugins, name, handler) # Ok
       THEN /\ last' = Called("registerPlugin", name, handler,
                            RegisterError(plugins, name, handler),
                            Delivery("registerPlugin"))
            /\ UNCHANGED <<plugins, stack, emitted>>
       ELSE /\ Len(stack) + 2 <= MaxStack
            /\ plugins' = MapSet(plugins, name, handler)
            /\ emitted' = CountEmit("plugin:registered", name)
            /\ stack' = Append(stack, EmitFrame("plugin:registered", [NoPayload EXCEPT !.name = name], 0))
            /\ last' = Called("registerPlugin", name, handler, Ok, "return")
    /\ UNCHANGED <<middlewares, listeners, logged, sends, bcasts, marks>>

\* unregisterPlugin(name), lines 36-40.
unregisterPlugin(name) ==
    /\ CanCall
    /\ ops' = ops + 1
    /\ last' = Called("unregisterPlugin", name, "", Ok, "return")
    /\ plugins' = MapDelete(plugins, name)
    /\ IF DeleteReturns(plugins, name)
       THEN /\ Len(stack) + 2 <= MaxStack
            /\ emitted' = CountEmit("plugin:unregistered", name)
            /\ stack' = Append(stack, EmitFrame("plugin:unregistered", [NoPayload EXCEPT !.name = name], 0))
       ELSE UNCHANGED <<stack, emitted>>
    /\ UNCHANGED <<middlewares, listeners, logged, sends, bcasts, marks>>

-----------------------------------------------------------------------------
\* send(name, message, context), lines 60-73.

\* The context a send receives when its caller omits it.  Objects are known by
\* the call that created them.  A direct call gets the fresh object of the
\* default parameter of line 60; the calls that broadcast makes pass
\* broadcast's own parameter on (line 83), the object that the default of
\* line 81 created once for that broadcast.
\* (mutant: broadcast does not pass its context on, every target gets its own)
ContextOf_PerTarget(bc) == <<"send", Len(sends) + 1>>
ContextOf(bc) == IF bc = 0 THEN <<"send", Len(sends) + 1>> ELSE bcasts[bc].ctx

\* lines 65-68: reduceRight folds the middleware array from its last element
\* to its first around the handler call, so the first middleware is outermost.
\* The pipeline is the sequence of its stages, outermost first.
\* (mutant: reduce instead of reduceRight puts the last middleware outermost)
Pipeline_Reduce(mws, handler) == [i \in 1..Len(mws) |-> mws[Len(mws) + 1 - i]] \o <<handler>>
Pipeline(mws, handler) == mws \o <<handler>>

\* The send call up to its first await: the check of line 61, the handler of
\* line 64, the pipeline of lines 65-68 and the call pipeline() of line 70,
\* which enters the outermost stage.
\* (mutant: the check of line 61 is missing; plugins.get yields undefined and the
\* pipeline is run around it)
SendTask_NoCheck(name, message, bc, slot) ==
    LET handler == IF MapHas(plugins, name) THEN MapGetHandler(plugins, name) ELSE "<undefined>"
        chain == middlewares \o <<handler>>
    IN [name |-> name, message |-> message, ctx |-> ContextOf(bc), bc |-> bc, slot |-> slot,
        chain |-> chain, d |-> 1, st |-> "run",
        nx |-> [k \in 1..Len(chain) |-> 0], inv |-> <<<<1, chain[1]>>>>,
        reg |-> <<MapGetOrUndefined(plugins, name)>>, em |-> 0,
        got |-> NoResult, res |-> NoResult, out |-> NoResult]
SendTask(name, message, bc, slot) ==
    IF ~MapHas(plugins, name)
    THEN [name |-> name, message |-> message, ctx |-> ContextOf(bc), bc |-> bc, slot |-> slot,
          chain |-> <<>>, d |-> 0, st |-> "rejected", nx |-> <<>>, inv |-> <<>>,
          reg |-> <<>>, em |-> 0,
          got |-> NoResult, res |-> NoResult, out |-> Failure(UnknownPlugin(name))]
    ELSE LET chain == Pipeline(middlewares, MapGetHandler(plugins, name))
         IN [name |-> name, message |-> message, ctx |-> ContextOf(bc), bc |-> bc,
             slot |-> slot, chain |-> chain, d |-> 1, st |-> "run",
             nx |-> [k \in 1..Len(chain) |-> 0], inv |-> <<<<1, chain[1]>>>>,
             reg |-> <<MapGetOrUndefined(plugins, name)>>, em |-> 0,
             got |-> NoResult, res |-> NoResult, out |-> NoResult]
RunFrame(id) == [Frame("run") EXCEPT !.id = id]

send(name, message) ==
    /\ CanCall
    /\ Len(sends) < MaxSends
    /\ ops' = ops + 1
    /\ LET t == SendTask(name, message, 0, 0)
       IN /\ sends' = Append(sends, t)
          /\ IF t.st = "rejected"
             THEN /\ last' = Called("send", name, "", t.out.v, Delivery("send"))
                  /\ UNCHANGED stack
             ELSE /\ Len(stack) + 1 <= MaxStack
                  /\ last' = Called("send", name, "", Ok, "promise")
                  /\ stack' = Append(stack, RunFrame(Len(sends) + 1))
    /\ UNCHANGED <<plugins, middlewares, listeners, logged, bcasts, emitted, marks>>

\* The stage that is running: the top frame is a send's, at depth d of its pipeline.
Running == IF stack = <<>> THEN FALSE ELSE Top.t = "run"
Cur == sends[Top.id]
IsMiddleware(t) == t.d < Len(t.chain)

\* The k-th stage of a send's pipeline: the closures of lines 65-68 hold the
\* middleware of the array and the handler that line 64 read at the call.
\* (mutant: the terminal stage reads this.plugins.get(name) when it runs)
StageAt_Late(t, k) ==
    IF k = Len(t.chain) THEN MapGetOrUndefined(plugins, t.name) ELSE t.chain[k]
StageAt(t, k) == t.chain[k]

\* A middleware calls next(): the next stage is entered synchronously.
\* (reg records what the registry holds for the name at that moment)
StageCallNext ==
    /\ Running
    /\ IsMiddleware(Cur)
    /\ Cur.nx[Cur.d] < MaxNext
    /\ sends' = [sends EXCEPT ![Top.id].nx[Cur.d] = @ + 1,
                              ![Top.id].d = @ + 1,
                              ![Top.id].got = NoResult,
                              ![Top.id].inv = Append(@, <<Cur.d + 1, StageAt(Cur, Cur.d + 1)>>),
                              ![Top.id].reg = Append(@, MapGetOrUndefined(plugins, Cur.name))]
    /\ UNCHANGED <<plugins, middlewares, listeners, logged, stack, bcasts, ops, last, emitted, marks>>

\* A stage ends with result r.  Its caller, the stage above, awaits that result
\* and goes on later; the result of the outermost stage is the pipeline's.
StageEnd(t, r) ==
    IF t.d > 1
    THEN [t EXCEPT !.d = @ - 1, !.got = r, !.st = "ready"]
    ELSE [t EXCEPT !.res = r, !.st = "piped"]

StageReturn(v) ==
    /\ Running
    /\ sends' = [sends EXCEPT ![Top.id] = StageEnd(Cur, Success(v))]
    /\ stack' = Pop(stack)
    /\ UNCHANGED <<plugins, middlewares, listeners, logged, bcasts, ops, last, emitted, marks>>

StageThrow(e) ==
    /\ Running
    /\ sends' = [sends EXCEPT ![Top.id] = StageEnd(Cur, Failure(e))]
    /\ stack' = Pop(stack)
    /\ UNCHANGED <<plugins, middlewares, listeners, logged, bcasts, ops, last, emitted, marks>>

\* A stage awaits something of its own: the synchronous segment ends.
StageSuspend ==
    /\ Running
    /\ sends' = [sends EXCEPT ![Top.id].st = "susp"]
    /\ stack' = Pop(stack)
    /\ UNCHANGED <<plugins, middlewares, listeners, logged, bcasts, ops, last, emitted, marks>>

\* A stage writes into the context it was given (middleware and handlers
\* receive the context object itself, lines 67 and 65).
StageMark ==
    /\ Running
    /\ <<Cur.ctx, Top.id>> \notin marks
    /\ marks' = marks \cup {<<Cur.ctx, Top.id>>}
    /\ UNCHANGED <<plugins, middlewares, listeners, logged, stack, sends, bcasts, ops, last,
                   emitted>>

\* A stage awaits something that never settles (the bus has no timeout and no
\* cancellation): the synchronous segment ends and the stage is never resumed.
StageHang ==
    /\ Running
    /\ sends' = [sends EXCEPT ![Top.id].st = "hung"]
    /\ stack' = Pop(stack)
    /\ UNCHANGED <<plugins, middlewares, listeners, logged, bcasts, ops, last, emitted, marks>>

\* The event loop resumes a stage: what it awaited has settled.
Resume(id) ==
    /\ stack = <<>>
    /\ sends[id].st \in {"susp", "ready"}
    /\ sends' = [sends EXCEPT ![id].st = "run"]
    /\ stack' = <<RunFrame(id)>>
    /\ UNCHANGED <<plugins, middlewares, listeners, logged, bcasts, ops, last, emitted, marks>>

\* line 70-71: await pipeline() settled.  A rejection leaves send at line 70;
\* a response is emitted as plugin:message.
\* (mutant: the payload is built without the awaited response)
MessagePayload_NoResponse(t) == [name |-> t.name, message |-> t.message, response |-> None]
MessagePayload(t) == [name |-> t.name, message |-> t.message, response |-> t.res.v]
SendContinue(id) ==
    /\ stack = <<>>
    /\ sends[id].st = "piped"
    /\ IF sends[id].res.ok
       THEN /\ sends' = [sends EXCEPT ![id].st = "emitting", ![id].em = @ + 1]
            /\ emitted' = CountEmit("plugin:message", sends[id].name)
            /\ stack' = <<EmitFrame("plugin:message", MessagePayload(sends[id]), id)>>
       ELSE /\ sends' = [sends EXCEPT ![id].st = "rejected", ![id].out = sends[id].res]
            /\ UNCHANGED <<stack, emitted>>
    /\ UNCHANGED <<plugins, middlewares, listeners, logged, bcasts, ops, last, marks>>

-----------------------------------------------------------------------------
\* broadcast(message, context), lines 81-89.
Pending == [tag |-> "pending", v |-> None]

broadcast(message) ==
    /\ CanCall
    /\ Len(bcasts) < MaxBroadcasts
    /\ Len(sends) + Len(plugins) <= MaxSends
    /\ Len(stack) + 2 <= MaxStack
    /\ ops' = ops + 1
    /\ last' = Called("broadcast", "", "", Ok, "promise")
    /\ bcasts' = Append(bcasts, [names |-> MapKeys(plugins), message |-> message,
                                 ctx |-> <<"broadcast", Len(bcasts) + 1>>,
                                 ids |-> <<>>, slots |-> <<>>, st |-> "map",
                                 out |-> NoResult, result |-> <<>>])
    /\ stack' = Append(stack, [Frame("map") EXCEPT !.id = Len(bcasts) + 1])
    /\ UNCHANGED <<plugins, middlewares, listeners, logged, sends, emitted, marks>>

\* line 82: Array.from(this.plugins.keys()) copies the names into an array
\* when broadcast is called; map runs over that array.
\* (mutant: map runs over the live key iterator of the registry)
Targets_Live(b) == MapKeys(plugins)
Targets(b) == bcasts[b].names

\* line 82-83: map calls send for the next name of the snapshot.
MapNext ==
    /\ stack # <<>>
    /\ Top.t = "map"
    /\ Top.i < Len(Targets(Top.id))
    /\ LET b == Top.id
           i == Top.i + 1
           t == SendTask(Targets(b)[i], bcasts[b].message, b, i)
           stk == [stack EXCEPT ![Len(stack)].i = i]
       IN /\ sends' = Append(sends, t)
          /\ bcasts' = [bcasts EXCEPT ![b].ids = Append(@, Len(sends) + 1),
                                      ![b].slots = Append(@, Pending)]
          /\ stack' = IF t.st = "run" THEN Append(stk, RunFrame(Len(sends) + 1)) ELSE stk
    /\ UNCHANGED <<plugins, middlewares, listeners, logged, ops, last, emitted, marks>>

\* line 88: every send was called; broadcast returns the promise of Promise.all.
MapEnd ==
    /\ stack # <<>>
    /\ Top.t = "map"
    /\ Top.i = Len(Targets(Top.id))
    /\ bcasts' = [bcasts EXCEPT ![Top.id].st = "join"]
    /\ stack' = Pop(stack)
    /\ UNCHANGED <<plugins, middlewares, listeners, logged, sends, ops, last, emitted, marks>>

\* lines 83-86: the catch handler of a rejected send logs the error and returns
\* {error: error.message}; reading .message of null or undefined throws instead.
CatchResult(error) ==
    IF HasProperties(error)
    THEN [tag |-> "error", v |-> MessageOf(error)]
    ELSE [tag |-> "threw", v |-> TypeErrorOnRead]
Catch(b, i) ==
    /\ stack = <<>>
    /\ bcasts[b].slots[i] = Pending
    /\ sends[bcasts[b].ids[i]].st = "rejected"
    /\ logged' = Append(logged, [kind |-> "broadcast", who |-> bcasts[b].names[i]])
    /\ bcasts' = [bcasts EXCEPT ![b].slots[i] = CatchResult(sends[bcasts[b].ids[i]].out.v)]
    /\ UNCHANGED <<plugins, middlewares, listeners, stack, sends, ops, last, emitted, marks>>

\* line 88: Promise.all fulfils with every task's value, in the order of the tasks,
\* once all have fulfilled; it rejects as soon as one task rejects.
TaskValue(b, i) ==
    IF bcasts[b].slots[i] = Pending
    THEN [tag |-> "value", v |-> sends[bcasts[b].ids[i]].out.v]
    ELSE bcasts[b].slots[i]
TaskFulfilled(b, i) ==
    IF bcasts[b].slots[i] = Pending
    THEN sends[bcasts[b].ids[i]].st = "resolved"
    ELSE bcasts[b].slots[i].tag = "error"
Join(b) ==
    /\ stack = <<>>
    /\ bcasts[b].st = "join"
    /\ \A i \in 1..Len(bcasts[b].names) : TaskFulfilled(b, i)
    /\ bcasts' = [bcasts EXCEPT ![b].st = "resolved", ![b].out = Success(None),
                     ![b].result = [i \in 1..Len(bcasts[b].names) |-> TaskValue(b, i)]]
    /\ UNCHANGED <<plugins, middlewares, listeners, logged, stack, sends, ops, last, emitted, marks>>
JoinReject(b, i) ==
    /\ stack = <<>>
    /\ bcasts[b].st = "join"
    /\ bcasts[b].slots[i].tag = "threw"
    /\ bcasts' = [bcasts EXCEPT ![b].st = "rejected", ![b].out = Failure(bcasts[b].slots[i].v)]
    /\ UNCHANGED <<plugins, middlewares, listeners, logged, stack, sends, ops, last, emitted, marks>>

-----------------------------------------------------------------------------
Next ==
    \/ \E e \in Events, l \in Listeners : on(e, l)
    \/ \E e \in Events, l \in Listeners : off(e, l)
    \/ \E m \in MwArgs : use(m)
    \/ \E n \in NameArgs, h \in HandlerArgs : registerPlugin(n, h)
    \/ \E n \in Names : unregisterPlugin(n)
    \/ \E n \in Names, m \in Messages : send(n, m)
    \/ \E m \in Messages : broadcast(m)
    \/ EmitNext
    \/ ListenerReturn
    \/ ListenerThrow
    \/ EmitEnd
    \/ StageCallNext
    \/ \E v \in Values : StageReturn(v)
    \/ \E e \in Thrown : StageThrow(e)
    \/ StageSuspend
    \/ StageHang
    \/ \E id \in 1..Len(sends) : Resume(id)
    \/ \E id \in 1..Len(sends) : SendContinue(id)
    \/ MapNext
    \/ MapEnd
    \/ \E b \in 1..Len(bcasts), i \in 1..MaxSends : i <= Len(bcasts[b].slots) /\ Catch(b, i)
    \/ \E b \in 1..Len(bcasts) : Join(b)
    \/ \E b \in 1..Len(bcasts), i \in 1..MaxSends : i <= Len(bcasts[b].slots) /\ JoinReject(b, i)

Spec == Init /\ [][Next]_vars

\* The bus with stages that also write into their context.  What a stage
\* returns or throws has no part in which context it is given, so here the
\* stages return one value and throw an Error or null.
CtxValues == {<<"value", "v1", "">>}
CtxThrown == {<<"Error", "boom", "">>, <<"null", "", "">>}
NextCtx ==
    \/ \E e \in Events, l \in Listeners : on(e, l)
    \/ \E e \in Events, l \in Listeners : off(e, l)
    \/ \E m \in MwArgs : use(m)
    \/ \E n \in NameArgs, h \in HandlerArgs : registerPlugin(n, h)
    \/ \E n \in Names : unregisterPlugin(n)
    \/ \E n \in Names, m \in Messages : send(n, m)
    \/ \E m \in Messages : broadcast(m)
    \/ EmitNext
    \/ ListenerReturn
    \/ ListenerThrow
    \/ EmitEnd
    \/ StageCallNext
    \/ \E v \in CtxValues : StageReturn(v)
    \/ \E e \in CtxThrown : StageThrow(e)
    \/ StageSuspend
    \/ StageHang
    \/ StageMark
    \/ \E id \in 1..Len(sends) : Resume(id)
    \/ \E id \in 1..Len(sends) : SendContinue(id)
    \/ MapNext
    \/ MapEnd
    \/ \E b \in 1..Len(bcasts), i \in 1..MaxSends : i <= Len(bcasts[b].slots) /\ Catch(b, i)
    \/ \E b \in 1..Len(bcasts) : Join(b)
    \/ \E b \in 1..Len(bcasts), i \in 1..MaxSends : i <= Len(bcasts[b].slots) /\ JoinReject(b, i)
CtxSpec == Init /\ [][NextCtx]_vars

-----------------------------------------------------------------------------
\* The steps the claims speak of.
\* A step that is a call of the bus operation op.
IsCall(op) == ops' = ops + 1 /\ last'.op = op
\* A step in which send is called (by a caller or by broadcast's map): the new task.
SendCalled == Len(sends') = Len(sends) + 1
NewTask == sends'[Len(sends')]
\* The stages a send has entered are recorded with their place in the pipeline.
Times(t, k) == Cardinality({j \in 1..Len(t.inv) : t.inv[j][1] = k})

\* C1: registerPlugin(name, h2) for a name already in the registry fails with
\* the duplicate-plugin error, leaves the registry, the middleware sequence and
\* the listener sets unchanged and emits no event (no emit call, no loop
\* pushed); a send to the name then binds, and invokes, the handler the
\* registry holds, which is the first one.
C1_DuplicateRejected ==
    [][ /\ (IsCall("registerPlugin") /\ last'.name \in Names /\ last'.arg \in Handlers
               /\ MapHas(plugins, last'.name))
            => /\ last'.out = DuplicatePlugin(last'.name)
               /\ last'.how = "throw"
               /\ plugins' = plugins
               /\ middlewares' = middlewares
               /\ listeners' = listeners
               /\ emitted' = emitted
               /\ stack' = stack
        /\ (SendCalled /\ MapHas(plugins, NewTask.name))
            => /\ NewTask.chain[Len(NewTask.chain)] = MapGetHandler(plugins, NewTask.name)
               /\ NewTask.inv = <<<<1, NewTask.chain[1]>>>>
        /\ \A id \in 1..Len(sends') : \A j \in 1..Len(sends'[id].inv) :
               sends'[id].inv[j][2] = sends'[id].chain[sends'[id].inv[j][1]]
      ]_vars
\* A second registration of "a" with another handler has just failed.
C1_Witness ==
    /\ last.op = "registerPlugin"
    /\ last.out = DuplicatePlugin("a")
    /\ MapHas(plugins, "a")
    /\ last.arg \in Handlers
    /\ last.arg # MapGetHandler(plugins, "a")

\* C2: a send to a name that is not in the registry when it is called fails
\* with the unknown-plugin error; it enters no middleware and no handler, then
\* or later, and emits no plugin:message.
C2_UnknownPlugin ==
    [][ /\ (SendCalled /\ ~MapHas(plugins, NewTask.name))
            => /\ NewTask.st = "rejected"
               /\ NewTask.out = Failure(UnknownPlugin(NewTask.name))
               /\ NewTask.inv = <<>>
               /\ NewTask.chain = <<>>
               /\ stack' = IF stack # <<>> /\ Top.t = "map"
                           THEN [stack EXCEPT ![Len(stack)].i = @ + 1] ELSE stack
               /\ emitted' = emitted
        /\ \A id \in 1..Len(sends) :
               sends[id].chain = <<>>
                 => /\ sends'[id] = sends[id]
                    /\ sends[id].em = 0
                    /\ sends[id].inv = <<>>
                    /\ \A j \in 1..Len(stack') : stack'[j].after # id /\ ~(stack'[j].t = "run" /\ stack'[j].id = id)
      ]_vars
\* A send to "b" was rejected while middleware is installed and "a" is registered.
C2_Witness ==
    /\ middlewares # <<>>
    /\ MapHas(plugins, "a")
    /\ \E id \in 1..Len(sends) :
         /\ sends[id].name = "b"
         /\ sends[id].st = "rejected"
         /\ sends[id].out = Failure(UnknownPlugin("b"))

\* C3: the pipeline of a send is the middleware sequence of the moment of the
\* call, in order of appending, followed by the handler.  The outermost stage
\* is entered first; each further stage is entered exactly as often as the
\* stage before it called next, so with every stage calling next once the
\* stages run in the order M1, ..., Mn, H, and behind a stage that returns
\* without calling next no further stage runs.  The response of the send is the
\* result of the outermost stage (the handler's when there is no middleware).
EnteredInOrder(t) ==
    /\ t.inv[1] = <<1, t.chain[1]>>
    /\ \A k \in 1..(Len(t.chain) - 1) : Times(t, k + 1) = t.nx[k]
    /\ (\A k \in 1..Len(t.chain) : t.nx[k] <= 1)
          => t.inv = [j \in 1..Len(t.inv) |-> <<j, t.chain[j]>>]
    /\ t.st = "resolved" => (t.res.ok /\ t.out = t.res)
C3_PipelineOrder ==
    [][ /\ (SendCalled /\ MapHas(plugins, NewTask.name))
            => NewTask.chain = middlewares \o <<MapGetHandler(plugins, NewTask.name)>>
        /\ \A id \in 1..Len(sends') : sends'[id].chain # <<>> => EnteredInOrder(sends'[id])
      ]_vars
\* A send through two different middleware has resolved with each of its three
\* stages entered once.
C3_Witness ==
    \E id \in 1..Len(sends) :
        /\ sends[id].st = "resolved"
        /\ Len(sends[id].chain) = 3
        /\ sends[id].chain[1] # sends[id].chain[2]
        /\ Len(sends[id].inv) = 3
        /\ sends[id].nx = <<1, 1, 0>>

\* What the result of a broadcast is claimed to be: one slot per name of the
\* snapshot, in its order, holding the response of the send to that name or
\* {error: message} of its failure.
Settled(b) == b.st \in {"resolved", "rejected"}
ErrorShaped(e) ==
    [tag |-> "error", v |-> IF e[1] = "Error" THEN <<"message", e[2], e[3]>> ELSE Undefined]
ResultMatches(b) ==
    /\ Len(b.result) = Len(b.names)
    /\ Len(b.ids) = Len(b.names)
    /\ \A i \in 1..Len(b.names) :
          LET t == sends[b.ids[i]]
          IN /\ t.name = b.names[i]
             /\ t.st \in {"resolved", "rejected"}
             /\ t.st = "resolved" => b.result[i] = [tag |-> "value", v |-> t.out.v]
             /\ t.st = "rejected" => b.result[i] = ErrorShaped(t.out.v)

\* C4: broadcast returns a sequence with one slot per plugin name registered when
\* it was called, in that order; slot i is the response of the send to the i-th
\* name, or {error: message} if that send failed; also when the registry changes
\* while the broadcast is in flight.
C4_BroadcastResult ==
    \A b \in 1..Len(bcasts) :
        Settled(bcasts[b]) => (bcasts[b].st = "resolved" /\ ResultMatches(bcasts[b]))

\* The part of C4 the code keeps: a broadcast that resolves has the claimed
\* result, and its names are the keys of the registry at the call.
BroadcastResultWhenResolved ==
    [][ /\ IsCall("broadcast") => bcasts'[Len(bcasts')].names = MapKeys(plugins)
        /\ \A b \in 1..Len(bcasts) : bcasts'[b].names = bcasts[b].names
        /\ \A b \in 1..Len(bcasts') :
              bcasts'[b].st = "resolved" => ResultMatches(bcasts[b])'
      ]_vars
\* A broadcast over two names resolved although the second was unregistered
\* while the broadcast was in flight.
BroadcastResultWhenResolved_Witness ==
    \E b \in 1..Len(bcasts) :
        /\ bcasts[b].st = "resolved"
        /\ Len(bcasts[b].names) = 2
        /\ bcasts[b].result[2].tag = "error"
        /\ sends[bcasts[b].ids[2]].chain = <<>>

\* C5: broadcast never fails as a whole: whatever a target's pipeline raises
\* (null included), the failure is caught, logged once with the plugin's name
\* and turned into an error-shaped value for that slot only.
LoggedFor(name) ==
    Cardinality({j \in 1..Len(logged) : logged[j] = [kind |-> "broadcast", who |-> name]})
CaughtFor(name) ==
    Cardinality({x \in {<<b, i>> : b \in 1..Len(bcasts), i \in 1..MaxSends + 1} :
                    /\ x[2] <= Len(bcasts[x[1]].slots)
                    /\ bcasts[x[1]].names[x[2]] = name
                    /\ bcasts[x[1]].slots[x[2]] # Pending})
C5_BroadcastNeverFails ==
    /\ \A b \in 1..Len(bcasts) :
          /\ bcasts[b].st # "rejected"
          /\ \A i \in 1..Len(bcasts[b].slots) : bcasts[b].slots[i].tag \in {"pending", "error"}
    /\ \A n \in Names : LoggedFor(n) = CaughtFor(n)

\* The emit loop on top of the stack returns in this step.
EmitReturns == stack # <<>> /\ Top.t = "emit" /\ stack' = Pop(stack)
\* The emit loop on top of the stack calls a listener in this step.
ListenerCalled == stack # <<>> /\ Top.t = "emit" /\ Len(stack') = Len(stack) + 1
Subscribed(ls, event) == IF event \in DOMAIN ls THEN Range(ls[event]) ELSE {}

\* C6: when an event is emitted and listeners fail, every listener subscribed
\* when the emission started is still invoked, a failure is logged and does not
\* end the loop, and the triggering operation completes normally: the registry
\* change is kept and send returns the pipeline's response.
C6_ListenersIsolated ==
    [][ /\ EmitReturns
            => /\ Range(Top.start) \subseteq Range(Top.fired)
               /\ plugins' = plugins
               /\ Top.after # 0 =>
                     /\ sends'[Top.after].st = "resolved"
                     /\ sends'[Top.after].out = Success(sends[Top.after].res.v)
        /\ (stack # <<>> /\ Top.t = "lis" /\ logged' # logged)
            => /\ logged' = Append(logged, [kind |-> "listener", who |-> Top.ev])
               /\ stack' = Pop(stack)
      ]_vars

\* C7: unregisterPlugin of an absent name changes nothing and emits nothing; of
\* a present name it removes that entry only and calls emit for
\* plugin:unregistered with that name once (no other step emits that event); a
\* send called while the name is absent fails with the unknown-plugin error,
\* and only a successful registerPlugin of the name makes it present again.
C7_Unregister ==
    [][ /\ (IsCall("unregisterPlugin") /\ ~MapHas(plugins, last'.name))
            => /\ plugins' = plugins
               /\ emitted' = emitted
               /\ stack' = stack
               /\ listeners' = listeners
               /\ middlewares' = middlewares
        /\ (IsCall("unregisterPlugin") /\ MapHas(plugins, last'.name))
            => /\ ~MapHas(plugins', last'.name)
               /\ plugins' = SelectSeq(plugins, LAMBDA e : e.name # last'.name)
               /\ emitted' = [emitted EXCEPT !["plugin:unregistered"][last'.name] = @ + 1]
               /\ Len(stack') = Len(stack) + 1
               /\ stack'[Len(stack')].t = "emit"
               /\ stack'[Len(stack')].ev = "plugin:unregistered"
               /\ stack'[Len(stack')].pl.name = last'.name
        /\ emitted'["plugin:unregistered"] # emitted["plugin:unregistered"]
            => IsCall("unregisterPlugin")
        /\ (SendCalled /\ ~MapHas(plugins, NewTask.name))
            => /\ NewTask.st = "rejected"
               /\ NewTask.out = Failure(UnknownPlugin(NewTask.name))
        /\ \A n \in Names : (~MapHas(plugins, n) /\ MapHas(plugins', n))
            => /\ IsCall("registerPlugin")
               /\ last'.name = n
               /\ last'.out = Ok
      ]_vars
\* "a" was registered, unregistered (one emission of each event), and a send to
\* it has then failed with the unknown-plugin error.
C7_Witness ==
    /\ last.op = "send"
    /\ last.name = "a"
    /\ last.out = UnknownPlugin("a")
    /\ emitted["plugin:registered"]["a"] = 1
    /\ emitted["plugin:unregistered"]["a"] = 1

\* C8: off(event, listener) for a listener that is not subscribed (a second off,
\* or an event or listener never subscribed) changes no listener set and no
\* running iteration and returns normally; after any off the listener is not in
\* the event's set; a listener is invoked only while it is in the set of the
\* emitted event, and only on(event, listener) puts it there.
C8_OffIdempotent ==
    [][ /\ (IsCall("off") /\ last'.arg \notin Subscribed(listeners, last'.name))
            => /\ listeners' = listeners
               /\ stack' = stack
               /\ last'.out = Ok
               /\ last'.how = "return"
        /\ IsCall("off")
            => /\ last'.arg \notin Subscribed(listeners', last'.name)
               /\ DOMAIN listeners' = DOMAIN listeners
               /\ \A e \in DOMAIN listeners :
                     Range(listeners'[e]) = Range(listeners[e]) \ (IF e = last'.name THEN {last'.arg} ELSE {})
        /\ ListenerCalled
            => /\ stack'[Len(stack')].t = "lis"
               /\ stack'[Len(stack')].who \in Subscribed(listeners, Top.ev)
        /\ \A e \in Events : \A l \in Listeners :
              (l \notin Subscribed(listeners, e) /\ l \in Subscribed(listeners', e))
                 => (IsCall("on") /\ last'.name = e /\ last'.arg = l)
      ]_vars
\* off was called for a listener that is not in the set of its event while
\* another listener is, after the listener had been subscribed and removed.
C8_Witness ==
    /\ last.op = "off"
    /\ last.name \in DOMAIN listeners
    /\ Len(listeners[last.name]) = 1
    /\ last.arg \notin Range(listeners[last.name])
    /\ ops = 4

\* C9: a send whose pipeline resolved emits plugin:message exactly once, with
\* payload {name, message, response}, response being the value send returns,
\* however often next was called; a send whose pipeline failed emits none and
\* rejects with the pipeline's failure unchanged.
MessagesEmittedFor(n) ==
    Cardinality({id \in 1..Len(sends) : sends[id].name = n /\ sends[id].em = 1})
C9_State ==
    /\ \A id \in 1..Len(sends) :
          LET t == sends[id]
          IN /\ t.em <= 1
             /\ t.st = "resolved" => (t.em = 1 /\ t.res.ok /\ t.out = t.res)
             /\ t.st = "emitting" => (t.em = 1 /\ t.res.ok)
             /\ t.st = "rejected" => (t.em = 0 /\ ~t.res.ok /\ (t.chain # <<>> => t.out = t.res))
             /\ t.st \in {"run", "susp", "ready", "piped"} => t.em = 0
    /\ \A n \in Names : emitted["plugin:message"][n] = MessagesEmittedFor(n)
    /\ \A j \in 1..Len(stack) :
          (stack[j].t = "emit" /\ stack[j].ev = "plugin:message")
             => /\ stack[j].after \in 1..Len(sends)
                /\ stack[j].pl = [name |-> sends[stack[j].after].name,
                                  message |-> sends[stack[j].after].message,
                                  response |-> sends[stack[j].after].res.v]
C9_OneMessageEvent ==
    [][ /\ C9_State'
        /\ \A id \in 1..Len(sends) :
              (sends[id].st = "piped" /\ sends'[id] # sends[id])
                 => sends'[id].st = (IF sends[id].res.ok THEN "emitting" ELSE "rejected")
      ]_vars
\* A send resolved after its middleware called next twice, the handler running twice.
C9_Witness ==
    \E id \in 1..Len(sends) :
        /\ sends[id].st = "resolved"
        /\ Len(sends[id].chain) = 2
        /\ sends[id].nx[1] = 2
        /\ Times(sends[id], 2) = 2
        /\ emitted["plugin:message"][sends[id].name] = 1

\* C10: a listener fires at most once per emission of an event, and only for
\* emissions that started after it was subscribed and before it was removed,
\* also when listeners call on and off for that event during the emission.
NoRepeat(s) == \A i, j \in 1..Len(s) : s[i] = s[j] => i = j
C10_OncePerEmission ==
    \A j \in 1..Len(stack) :
        stack[j].t = "emit"
           => /\ NoRepeat(stack[j].fired)
              /\ Range(stack[j].fired) \subseteq Range(stack[j].start)

-----------------------------------------------------------------------------
\* The errors of the argument and registry checks (lines 20, 23, 26, 47, 62).
ValidationErrors ==
    {InvalidName, InvalidHandler, InvalidMiddleware}
       \cup {DuplicatePlugin(n) : n \in Names} \cup {UnknownPlugin(n) : n \in Names}

\* C11 (as stated): every validation error, the unknown-plugin error of send
\* included, is thrown synchronously by the violating call and never reported
\* through the call's asynchronous result.
C11_SynchronousFailures ==
    last.out \in ValidationErrors => last.how = "throw"

\* C11 (amended): the invalid-argument and duplicate-plugin errors of
\* registerPlugin and use are thrown synchronously by the violating call.  The
\* unknown-plugin error of send is decided synchronously at the call, before
\* any stage runs, but the call returns normally and the error is the
\* rejection of the promise it returned.
C11_ValidationDelivery ==
    [][ /\ (IsCall("registerPlugin")
               /\ (last'.name \notin Names \/ last'.arg \notin Handlers
                      \/ MapHas(plugins, last'.name)))
            => /\ last'.out \in ValidationErrors
               /\ last'.how = "throw"
               /\ stack' = stack
               /\ sends' = sends
        /\ (IsCall("use") /\ last'.arg \notin Mws)
            => /\ last'.out = InvalidMiddleware
               /\ last'.how = "throw"
               /\ stack' = stack
               /\ sends' = sends
        /\ (IsCall("send") /\ ~MapHas(plugins, last'.name))
            => /\ last'.out = UnknownPlugin(last'.name)
               /\ last'.how = "promise"
               /\ stack' = stack
               /\ SendCalled
               /\ NewTask.st = "rejected"
               /\ NewTask.out = Failure(last'.out)
        /\ (last' # last /\ last'.out \in ValidationErrors)
            => (last'.how = "throw" <=> last'.op \in {"registerPlugin", "use"})
      ]_vars
\* A send to the unregistered "b" has returned a promise that is rejected with
\* the unknown-plugin error; the registry is empty.
C11_Witness ==
    /\ last.op = "send"
    /\ last.out = UnknownPlugin("b")
    /\ last.how = "promise"
    /\ sends # <<>>
    /\ sends[Len(sends)].st = "rejected"
    /\ sends[Len(sends)].name = "b"
    /\ plugins = <<>>

\* C12: registerPlugin with an empty or non-string name or with a handler that
\* is not a function, and use with a middleware that is not a function, fail
\* with the invalid-argument error, store nothing and emit no event.
C12_InvalidArgument ==
    [][ /\ (IsCall("registerPlugin") /\ last'.name \notin Names)
            => last'.out = InvalidName
        /\ (IsCall("registerPlugin") /\ last'.name \in Names /\ last'.arg \notin Handlers)
            => last'.out = InvalidHandler
        /\ (IsCall("use") /\ last'.arg \notin Mws)
            => last'.out = InvalidMiddleware
        /\ ((IsCall("registerPlugin") /\ (last'.name \notin Names \/ last'.arg \notin Handlers))
               \/ (IsCall("use") /\ last'.arg \notin Mws))
            => /\ last'.how = "throw"
               /\ UNCHANGED <<plugins, middlewares, listeners, logged, stack,
                              sends, bcasts, emitted>>
        /\ \A i \in 1..Len(plugins') :
               plugins'[i].name \in Names /\ plugins'[i].handler \in Handlers
        /\ Range(middlewares') \subseteq Mws
      ]_vars
\* With "a" registered and a middleware installed, a registration of "b" with
\* something that is not a function has just failed; "b" is absent.
C12_Witness ==
    /\ last.op = "registerPlugin"
    /\ last.name = "b"
    /\ last.arg = NotAFunction
    /\ last.out = InvalidHandler
    /\ MapHas(plugins, "a")
    /\ ~MapHas(plugins, "b")
    /\ middlewares # <<>>

\* C13: the pipeline of a send is fixed when the send is called.  No later
\* step changes it: a use(M) that returns while the send is in flight appends
\* M to the middleware sequence only, at its end, and every send called after
\* that has M in its pipeline behind all middleware appended earlier and in
\* front of the handler.
C13_PipelineFixedAtCall ==
    [][ /\ \A id \in 1..Len(sends) : sends'[id].chain = sends[id].chain
        /\ (IsCall("use") /\ last'.arg \in Mws)
            => /\ middlewares' = middlewares \o <<last'.arg>>
               /\ Len(sends') = Len(sends)
        /\ ~IsCall("use") => middlewares' = middlewares
        /\ (SendCalled /\ MapHas(plugins, NewTask.name))
            => /\ Len(NewTask.chain) = Len(middlewares) + 1
               /\ \A k \in 1..Len(middlewares) : NewTask.chain[k] = middlewares[k]
      ]_vars
\* Two sends to "a": the first, called before use("m1"), is still in flight
\* with the handler as its whole pipeline; the second, called after use
\* returned, has "m1" in front of the handler.
C13_Witness ==
    /\ Len(sends) = 2
    /\ middlewares = <<"m1">>
    /\ sends[1].name = "a" /\ sends[2].name = "a"
    /\ sends[1].st = "susp"
    /\ Len(sends[1].chain) = 1
    /\ sends[2].chain = <<"m1", sends[1].chain[1]>>
    /\ sends[2].inv = <<<<1, "m1">>>>

\* C14: broadcast takes its target names once, when it is called: the names
\* of a broadcast never change afterwards, the sends it starts are exactly one
\* per name of that sequence, in its order, and its result has exactly one
\* slot per name.  A plugin registered while the broadcast is in flight gets no
\* send and no slot.
C14_TargetsSnapshot ==
    [][ /\ \A b \in 1..Len(bcasts) : bcasts'[b].names = bcasts[b].names
        /\ IsCall("broadcast") => bcasts'[Len(bcasts')].names = MapKeys(plugins)
        /\ \A b \in 1..Len(bcasts') :
              /\ Len(bcasts'[b].ids) <= Len(bcasts'[b].names)
              /\ Len(bcasts'[b].slots) = Len(bcasts'[b].ids)
              /\ \A i \in 1..Len(bcasts'[b].ids) :
                    /\ sends'[bcasts'[b].ids[i]].name = bcasts'[b].names[i]
                    /\ sends'[bcasts'[b].ids[i]].bc = b
                    /\ sends'[bcasts'[b].ids[i]].slot = i
              /\ bcasts'[b].st = "resolved" => Len(bcasts'[b].result) = Len(bcasts'[b].names)
              /\ bcasts'[b].st # "map" => Len(bcasts'[b].ids) = Len(bcasts'[b].names)
        /\ \A id \in 1..Len(sends') :
              sends'[id].bc # 0 => bcasts'[sends'[id].bc].ids[sends'[id].slot] = id
      ]_vars
\* A broadcast over "a" alone has called all its sends and waits for them;
\* "b", registered meanwhile, is in the registry and has no send and no slot.
C14_Witness ==
    /\ Len(bcasts) = 1
    /\ bcasts[1].names = <<"a">>
    /\ bcasts[1].st = "join"
    /\ Len(bcasts[1].slots) = 1
    /\ stack = <<>>
    /\ MapHas(plugins, "b")
    /\ \A id \in 1..Len(sends) : sends[id].name # "b"

\* C15: broadcast calls the send of every target of its snapshot before it
\* suspends; it resolves only when every one of those sends has resolved or
\* has failed and been replaced by an error result; and the failure of one
\* target never completes the broadcast, either way, while the stage of
\* another target is still suspended.
C15_EagerFanOutJoin ==
    \A b \in 1..Len(bcasts) :
        /\ bcasts[b].st = "map" => stack # <<>>
        /\ bcasts[b].st # "map" => Len(bcasts[b].ids) = Len(bcasts[b].names)
        /\ bcasts[b].st = "resolved"
             => \A i \in 1..Len(bcasts[b].names) :
                   \/ sends[bcasts[b].ids[i]].st = "resolved"
                   \/ /\ sends[bcasts[b].ids[i]].st = "rejected"
                      /\ bcasts[b].slots[i] # Pending
        /\ Settled(bcasts[b])
             => \A i \in 1..Len(bcasts[b].names) : sends[bcasts[b].ids[i]].st # "susp"

\* C16: emission is synchronous and contained in the call that triggers it.
\* The step that changes the registry is the step that enters emit, and the
\* step in which a send finds its pipeline resolved is the step that enters
\* emit for plugin:message.  Listeners are invoked only from a running emit
\* loop; while the loop runs, the code that called the bus does not go on and
\* the send's result is not delivered: the call returns (the send resolves)
\* in the step that ends the loop, when every listener then subscribed to the
\* event has been invoked.  No emission is pending when the stack is empty.
EmitEntered(event) ==
    /\ stack' # <<>>
    /\ stack'[Len(stack')].t = "emit"
    /\ stack'[Len(stack')].ev = event
    /\ stack'[Len(stack')].pos = 0
    /\ stack'[Len(stack')].fired = <<>>
    /\ \A j \in 1..(Len(stack') - 1) : j <= Len(stack) /\ stack'[j] = stack[j]
    /\ emitted' = [emitted EXCEPT ![event][stack'[Len(stack')].pl.name] = @ + 1]
C16_EmissionContained ==
    [][ /\ emitted' # emitted
            => \E event \in Events :
                  /\ EmitEntered(event)
                  /\ LET n == stack'[Len(stack')].pl.name
                         id == stack'[Len(stack')].after
                     IN /\ event = "plugin:registered"
                             => /\ IsCall("registerPlugin")
                                /\ ~MapHas(plugins, n) /\ MapHas(plugins', n)
                        /\ event = "plugin:unregistered"
                             => /\ IsCall("unregisterPlugin")
                                /\ MapHas(plugins, n) /\ ~MapHas(plugins', n)
                        /\ event = "plugin:message"
                             => /\ id \in 1..Len(sends)
                                /\ sends[id].name = n
                                /\ sends[id].st = "piped" /\ sends[id].res.ok
                                /\ sends'[id].st = "emitting"
                                /\ sends'[id].out = NoResult
        /\ plugins' # plugins => emitted' # emitted
        /\ \A j \in 1..Len(stack') :
              stack'[j].t = "lis"
                 => j > 1 /\ stack'[j - 1].t = "emit" /\ stack'[j - 1].ev = stack'[j].ev
        /\ (stack # <<>> /\ Top.t = "emit")
            => /\ ops' = ops /\ plugins' = plugins /\ emitted' = emitted
               /\ \/ stack' = Pop(stack)
                  \/ /\ Len(stack') = Len(stack) + 1
                     /\ stack'[Len(stack')].t = "lis"
               /\ stack' = Pop(stack)
                    => \A l \in Subscribed(listeners, Top.ev) : l \in Range(Top.fired)
        /\ \A id \in 1..Len(sends) :
              (sends'[id].st = "resolved" /\ sends[id].st # "resolved")
                 => /\ sends[id].st = "emitting"
                    /\ stack # <<>> /\ Top.t = "emit" /\ Top.after = id
                    /\ stack' = Pop(stack)
        /\ \A id \in 1..Len(sends') :
              sends'[id].st = "emitting"
                 <=> \E j \in 1..Len(stack') : stack'[j].t = "emit" /\ stack'[j].after = id
      ]_vars
\* A listener of plugin:message is running inside the emit loop of a send
\* whose pipeline has resolved and whose result is not yet delivered.
C16_Witness ==
    /\ Len(stack) = 2
    /\ stack[1].t = "emit"
    /\ stack[1].ev = "plugin:message"
    /\ stack[2].t = "lis"
    /\ stack[1].after \in 1..Len(sends)
    /\ sends[stack[1].after].st = "emitting"
    /\ sends[stack[1].after].res.ok
    /\ sends[stack[1].after].out = NoResult
    /\ emitted["plugin:message"][sends[stack[1].after].name] = 1

\* A send one of whose stages awaits something that never settles.
Hung(id) == sends[id].st = "hung"

\* C17: every send and every broadcast completes once all its stages have
\* returned or failed, and a stage that never resolves hangs its send and
\* every broadcast that includes that target: such a broadcast never
\* completes, whatever its other targets do.  (The formula is the second half:
\* a hung send is never completed, and neither is its broadcast.)
C17_HungNeverCompletes ==
    \A id \in 1..Len(sends) :
        Hung(id)
          => /\ sends[id].out = NoResult
             /\ sends[id].bc # 0 => ~Settled(bcasts[sends[id].bc])

Balance(n) == emitted["plugin:registered"][n] - emitted["plugin:unregistered"][n]
C19_Balanced == \A n \in Names : Balance(n) = IF MapHas(plugins, n) THEN 1 ELSE 0
C19_RegistryEvents ==
    [][ /\ C19_Balanced /\ C19_Balanced'
        /\ \A n \in Names :
              \/ /\ emitted'["plugin:registered"][n] = emitted["plugin:registered"][n]
                 /\ emitted'["plugin:unregistered"][n] = emitted["plugin:unregistered"][n]
              \/ /\ emitted'["plugin:registered"][n] = emitted["plugin:registered"][n] + 1
                 /\ emitted'["plugin:unregistered"][n] = emitted["plugin:unregistered"][n]
                 /\ \A o \in Names \ {n} : Balance(o)' = Balance(o)
              \/ /\ emitted'["plugin:registered"][n] = emitted["plugin:registered"][n]
                 /\ emitted'["plugin:unregistered"][n] = emitted["plugin:unregistered"][n] + 1
                 /\ \A o \in Names \ {n} : Balance(o)' = Balance(o)
        /\ (IsCall("registerPlugin") /\ last'.name \in Names /\ last'.arg \in Handlers
               /\ ~MapHas(plugins, last'.name))
            => /\ last'.out = Ok
               /\ MapHas(plugins', last'.name)
               /\ MapGetHandler(plugins', last'.name) = last'.arg
               /\ emitted'["plugin:registered"][last'.name]
                     = emitted["plugin:registered"][last'.name] + 1
      ]_vars
\* "a" was registered with h1, sent to, unregistered and registered again with
\* h2: two plugin:registered and one plugin:unregistered, and "a" bound to h2.
C19_Witness ==
    /\ emitted["plugin:registered"]["a"] = 2
    /\ emitted["plugin:unregistered"]["a"] = 1
    /\ MapHas(plugins, "a")
    /\ MapGetHandler(plugins, "a") = "h2"
    /\ sends # <<>>
    /\ sends[1].name = "a"
    /\ sends[1].chain = <<"h1">>
    /\ last.op = "registerPlugin" /\ last.out = Ok /\ last.arg = "h2"

\* What the stages of a send can read in their context: the writes made into
\* the object they were given.
Visible(id) == {m \in marks : m[1] = sends[id].ctx}

\* C20: within one broadcast every per-target send receives the same context
\* object, the one made for that broadcast, so what the stage of one target
\* writes into it is what the stages of the other targets read.  Two sends
\* that are not of the same broadcast (two direct sends with the context
\* omitted in particular) never share a context.
C20_ContextSharing ==
    /\ \A m \in marks : m[2] \in 1..Len(sends) /\ m \in Visible(m[2])
    /\ \A i \in 1..Len(sends) :
          sends[i].bc # 0 => sends[i].ctx = bcasts[sends[i].bc].ctx
    /\ \A i, j \in 1..Len(sends) :
          i # j =>
            IF sends[i].bc # 0 /\ sends[i].bc = sends[j].bc
            THEN /\ sends[i].ctx = sends[j].ctx
                 /\ Visible(i) = Visible(j)
            ELSE /\ sends[i].ctx # sends[j].ctx
                 /\ Visible(i) \cap Visible(j) = {}
\* Two targets of one broadcast: a stage of the second is running and reads,
\* in its context, what a stage of the first has written; it has written
\* nothing itself.
C20_Witness ==
    /\ Len(sends) = 2
    /\ sends[1].bc = 1 /\ sends[2].bc = 1
    /\ stack # <<>> /\ Top.t = "run" /\ Top.id = 2
    /\ Visible(2) = {<<bcasts[1].ctx, 1>>}

====
